---- MODULE Spec2Model ----
(***************************************************************************)
(* A model of src/Uncontrollable.ts: the two variants of the higher-order *)
(* function Uncontrollable, which forward to the external library call    *)
(* uncontrollable(Component, propHandlerHash, methods), and the two       *)
(* variants of the type-level mapping UncontrollablePropsType.            *)
(*                                                                         *)
(* Two specifications share the variables:                                *)
(*   Spec      the run-time behaviour of Uncontrollable (both variants);   *)
(*   TypeSpec  the instantiation of the type aliases on props shapes.     *)
(***************************************************************************)
EXTENDS Naturals, Sequences, FiniteSets

\* ------------------------------------------------------------------ bounds

\* Number of closures Uncontrollable(...) returns in a run.
MaxClosures == 2
\* Number of applications closure(Component) of a run.
MaxCalls == 2
\* Largest number of entries of a prop handler hash type H.
MaxHashSize == 2

\* --------------------------------------------------------- run-time values

\* The hashes handed to Uncontrollable (prop name -> handler prop name):
\* the ones of the two usage examples.
Hashes ==
    { [k \in {"value", "title"} |->
          IF k = "value" THEN "on_change" ELSE "on_title_change"],
      [k \in {"value", "expanded"} |->
          IF k = "value" THEN "on_change" ELSE "on_expanded_change"] }

\* The components handed to the closure.
Components == {"Example", "ControllableExample"}

\* The methods lists handed to Uncontrollable.
MethodLists == {<<"focus">>, <<"blur", "focus">>}

\* An actual argument for the parameter methods: either left out
\* (undefined) or a list.
MethodsArgs ==
    {[given |-> FALSE, list |-> <<>>]} \cup
    {[given |-> TRUE, list |-> l] : l \in MethodLists}

\* What the external library call uncontrollable(...) does: it returns a
\* component or throws.  The library is not part of the repository; every
\* outcome is possible for every input.
LibraryOutcomes ==
    {[kind |-> "return", value |-> c] : c \in {"Wrapped1", "Wrapped2"}} \cup
    {[kind |-> "throw", value |-> e] : e \in {"InvariantViolation"}}

\* ---------------------------------------------------------------- run time

VARIABLES
    closures,   \* the functions Uncontrollable(...) has returned
    calls,      \* the calls made to the library's uncontrollable, in order
    results,    \* the outcome of every closure(Component), in order
    last,       \* the outcome of the most recent call of either function
    tH,         \* TypeSpec: the hash type H
    tP,         \* TypeSpec: the props shape P
    first,      \* TypeSpec: first variant's UncontrollablePropsType<H, P>
    second      \* TypeSpec: second variant's UncontrollablePropsType<P', UP>

vars == <<closures, calls, results, last, tH, tP, first, second>>
runVars == <<closures, calls, results, last>>
typeVars == <<tH, tP, first, second>>

\* The default parameter `methods = []`: an argument left out (undefined)
\* is replaced by a new empty list.
DefaultMethods(m) == IF m.given THEN m.list ELSE <<>>

\* First variant, outer arrow function: (propHandlerHash, methods = []) =>
\* <closure>.  It evaluates nothing but the default and returns the closure,
\* which captures both.  `variant` and `given` only record which function was
\* called with which arguments.
Uncontrollable(propHandlerHash, m) ==
    [kind |-> "return",
     value |-> [variant |-> 1,
                given |-> [propHandlerHash |-> propHandlerHash, methods |-> m],
                propHandlerHash |-> propHandlerHash,
                methods |-> DefaultMethods(m)]]

\* Mutant: the second variant forgets the methods it is given.
Uncontrollable2WithoutMethods(propHandlerHash, m) ==
    [kind |-> "return",
     value |-> [variant |-> 2,
                given |-> [propHandlerHash |-> propHandlerHash, methods |-> m],
                propHandlerHash |-> propHandlerHash,
                methods |-> <<>>]]

\* Second variant, outer arrow function.
Uncontrollable2(propHandlerHash, m) ==
    [kind |-> "return",
     value |-> [variant |-> 2,
                given |-> [propHandlerHash |-> propHandlerHash, methods |-> m],
                propHandlerHash |-> propHandlerHash,
                methods |-> DefaultMethods(m)]]

\* Mutant: the library is called without the methods (its third parameter
\* is optional), so it sees none.
LibraryCallsWithoutMethods(cl, Component) ==
    << <<Component, cl.propHandlerHash, <<>> >> >>

\* The argument lists of the library calls the closure makes for Component:
\* one call, uncontrollable(Component, propHandlerHash, methods).
LibraryCalls(cl, Component) ==
    << <<Component, cl.propHandlerHash, cl.methods>> >>

\* Mutant: an error of the library is caught and null returned.
ForwardCaught(out) ==
    IF out.kind = "throw" THEN [kind |-> "return", value |-> "null"] ELSE out

\* The closure's own outcome, given the library call's: the body is the
\* call expression itself, so a value is returned and an error propagates.
Forward(out) == out

NoOutcome == [op |-> "none", kind |-> "return"]

RunInit ==
    /\ closures = {}
    /\ calls = <<>>
    /\ results = <<>>
    /\ last = NoOutcome

\* Uncontrollable(propHandlerHash, methods) of the first variant.
CallUncontrollable ==
    \E h \in Hashes, m \in MethodsArgs :
        LET out == Uncontrollable(h, m)
        IN  /\ Cardinality(closures) < MaxClosures
            /\ closures' = IF out.kind = "return"
                           THEN closures \cup {out.value} ELSE closures
            /\ last' = [op |-> "outer", kind |-> out.kind]
            /\ UNCHANGED <<calls, results>>

\* Uncontrollable(propHandlerHash, methods) of the second variant.
CallUncontrollable2 ==
    \E h \in Hashes, m \in MethodsArgs :
        LET out == Uncontrollable2(h, m)
        IN  /\ Cardinality(closures) < MaxClosures
            /\ closures' = IF out.kind = "return"
                           THEN closures \cup {out.value} ELSE closures
            /\ last' = [op |-> "outer", kind |-> out.kind]
            /\ UNCHANGED <<calls, results>>

\* closure(Component): the library is called and its outcome forwarded.
ApplyClosure ==
    \E cl \in closures, C \in Components, lib \in LibraryOutcomes :
        LET made == LibraryCalls(cl, C)
            out  == Forward(lib)
        IN  /\ Len(results) < MaxCalls
            /\ calls' = calls \o [i \in 1..Len(made) |->
                                    [args |-> made[i], outcome |-> lib,
                                     by |-> Len(results) + 1]]
            /\ results' = Append(results,
                                 [closure |-> cl, Component |-> C,
                                  library |-> lib, outcome |-> out])
            /\ last' = [op |-> "inner", kind |-> out.kind]
            /\ UNCHANGED closures

\* --------------------------------------------------------------- the types

\* The prop names the shapes draw from: a state-bearing prop, its handler,
\* its default* prop, an unrelated prop, and React's ref.
Names == {"value", "on_change", "defaultValue", "other", "ref"}

\* The type each prop is declared with when a shape has it.
DeclaredType(n) ==
    CASE n = "value" -> "number"
      [] n = "on_change" -> "function"
      [] n = "defaultValue" -> "number"
      [] n = "other" -> "boolean"
      [] OTHER -> "string"

\* A type is the set of its union members.  A member is the intersection
\* of the types its tags name; `of` holds, for the generic
\* RefObject<ComponentType<T>>, the props shape T it is about.
Prim(t) == [tags |-> {t}, of |-> {}]
Undefined == Prim("undefined")
Unknown == Prim("unknown")

\* The primitive types: the intersection of two of them is never, and so
\* is the intersection of undefined with any other type.
PrimitiveTags == {"number", "string", "boolean", "undefined"}

MemberAnd(x, y) ==
    LET z == [tags |-> x.tags \cup y.tags, of |-> x.of \cup y.of]
    IN  IF \/ Cardinality(z.tags \cap PrimitiveTags) > 1
           \/ "undefined" \in z.tags /\ Cardinality(z.tags) > 1
        THEN {} ELSE {z}

\* A | B and A & B on such unions; unknown is the top type.
TyOr(a, b) == IF Unknown \in a \cup b THEN {Unknown} ELSE a \cup b
TyAnd(a, b) ==
    IF Unknown \in a THEN b
    ELSE IF Unknown \in b THEN a
    ELSE UNION {MemberAnd(x, y) : x \in a, y \in b}

\* A props shape maps each prop name it has to [ty, opt]; the type of an
\* optional prop includes undefined.
Required(t) == [ty |-> {Prim(t)}, opt |-> FALSE]
Optional(t) == [ty |-> {Prim(t), Undefined}, opt |-> TRUE]

PropsShapes ==
    UNION { { [n \in D |-> IF n \in O THEN Optional(DeclaredType(n))
                           ELSE Required(DeclaredType(n))] : O \in SUBSET D }
            : D \in SUBSET Names }

\* The hash types H: literal-typed maps prop name -> handler prop name.
HashTypes ==
    UNION { [D -> Names] : D \in {K \in SUBSET Names : Cardinality(K) <= MaxHashSize} }

Range(f) == {f[k] : k \in DOMAIN f}

\* A shape as a value that can stand inside a type.
ShapeOf(T) == {[name |-> n, ty |-> T[n].ty, opt |-> T[n].opt] : n \in DOMAIN T}

\* Exclude<T, U> on unions of literal keys.
Exclude(T, U) == T \ U

\* Pick<T, K>: homomorphic, each picked prop keeps its type and modifier.
Pick(T, K) == [n \in K \cap DOMAIN T |-> T[n]]

\* type Omit<T, K extends keyof T> = Pick<T, Exclude<keyof T, K>>
Omit(T, K) == Pick(T, Exclude(DOMAIN T, K))

\* Partial<T>: every prop optional.
Partial(T) ==
    [n \in DOMAIN T |-> [ty |-> TyOr(T[n].ty, {Undefined}), opt |-> TRUE]]

\* interface Ref<T> { ref?: React.RefObject<React.ComponentType<T>> }
Ref(T) ==
    [n \in {"ref"} |->
        [ty |-> {[tags |-> {"RefObject<ComponentType>"}, of |-> ShapeOf(T)],
                 Undefined},
         opt |-> TRUE]]

\* The indexed access P[K]: the type read from prop K (undefined included
\* when K is optional); unknown when P has no prop K.
IndexedAccess(P, K) == IF K \in DOMAIN P THEN P[K].ty ELSE {Unknown}

\* Mutant: the mapped type ranges over the keys of H only.
CPOfKeysOnly(H, P) ==
    [K \in DOMAIN H |-> [ty |-> IndexedAccess(P, K), opt |-> FALSE]]

\* type CP<H, P> = { [K in keyof H | H[keyof H]]: P[K] }: the mapped type
\* ranges over a union of names, not over keyof P, so no modifier is copied.
CP(H, P) ==
    [K \in DOMAIN H \cup Range(H) |->
        [ty |-> IndexedAccess(P, K), opt |-> FALSE]]

\* A & B of two object types: the props of both; a prop of both has the
\* intersection of the two types and is optional only when optional in both.
Intersect(A, B) ==
    [n \in DOMAIN A \cup DOMAIN B |->
        IF n \in DOMAIN A /\ n \in DOMAIN B
        THEN [ty |-> TyAnd(A[n].ty, B[n].ty), opt |-> A[n].opt /\ B[n].opt]
        ELSE IF n \in DOMAIN A THEN A[n] ELSE B[n]]

\* First variant:
\* UncontrollablePropsType<H, P> =
\*     Partial<CP<H, P>> & Omit<P, keyof CP<H, P>> & Ref<P>
UncontrollablePropsType(H, P) ==
    Intersect(Intersect(Partial(CP(H, P)), Omit(P, DOMAIN CP(H, P))), Ref(P))

\* Mutant: the props the uncontrollable works with are not made optional.
UncontrollablePropsType2NotPartial(P, UP) ==
    Intersect(Intersect(UP, Pick(P, Exclude(DOMAIN P, DOMAIN UP))), Ref(P))

\* Second variant:
\* UncontrollablePropsType<P, UP> =
\*     Partial<UP> & Pick<P, Exclude<keyof P, keyof UP>> & Ref<P>
UncontrollablePropsType2(P, UP) ==
    Intersect(Intersect(Partial(UP), Pick(P, Exclude(DOMAIN P, DOMAIN UP))),
              Ref(P))

\* The default*-like props.
DefaultNames == {"defaultValue"}

\* The second variant's two type arguments for a component whose props,
\* default* props included, are P and whose hash is H: the props without
\* the default*-like ones, and the props the uncontrollable works with
\* (value-, on_change- and default*-like).
ComponentProps(P) == Pick(P, Exclude(DOMAIN P, DefaultNames))
UncontrollableProps(H, P) ==
    Pick(P, DOMAIN H \cup Range(H) \cup DefaultNames)

NotInstantiated == <<>>

TypeIdle ==
    /\ tH = <<>>
    /\ tP = <<>>
    /\ first = NotInstantiated
    /\ second = NotInstantiated

TypeInit ==
    /\ RunInit
    /\ tH \in HashTypes
    /\ tP \in PropsShapes
    /\ first = NotInstantiated
    /\ second = NotInstantiated

\* The first variant's alias is instantiated on (H, P).
InstantiateFirst ==
    /\ first = NotInstantiated
    /\ first' = UncontrollablePropsType(tH, tP)
    /\ UNCHANGED <<tH, tP, second>>

\* The second variant's alias is instantiated on the arguments that stand
\* for the same component.
InstantiateSecond ==
    /\ second = NotInstantiated
    /\ second' = UncontrollablePropsType2(ComponentProps(tP),
                                          UncontrollableProps(tH, tP))
    /\ UNCHANGED <<tH, tP, first>>

TypeNext ==
    \/ InstantiateFirst /\ UNCHANGED runVars
    \/ InstantiateSecond /\ UNCHANGED runVars

TypeSpec == TypeInit /\ [][TypeNext]_vars

Init == RunInit /\ TypeIdle

Next ==
    \/ CallUncontrollable /\ UNCHANGED typeVars
    \/ CallUncontrollable2 /\ UNCHANGED typeVars
    \/ ApplyClosure /\ UNCHANGED typeVars

Spec == Init /\ [][Next]_vars

\* ------------------------------------------------- claims about run time

\* The library calls that the i-th application closure(Component) made.
CallsBy(i) == {j \in 1..Len(calls) : calls[j].by = i}

\* C1: every application Uncontrollable(h, m)(C), of either variant, makes
\* exactly one call to the library's uncontrollable, with the arguments
\* (C, h, m) in that order, and what the library returns is what the
\* application returns.
C1_ForwardsOneCall ==
    \A i \in 1..Len(results) :
        LET r == results[i]
            g == r.closure.given
        IN  /\ Cardinality(CallsBy(i)) = 1
            /\ \A j \in CallsBy(i) :
                /\ Len(calls[j].args) = 3
                /\ calls[j].args[1] = r.Component
                /\ calls[j].args[2] = g.propHandlerHash
                /\ g.methods.given => calls[j].args[3] = g.methods.list
                /\ calls[j].outcome.kind = "return" => r.outcome = calls[j].outcome

\* Both variants have been applied with a methods list, to different
\* components, and the library returned different components.
C1_Witness ==
    /\ Len(results) = 2
    /\ results[1].closure.variant # results[2].closure.variant
    /\ results[1].closure.given.methods.given
    /\ results[2].closure.given.methods.given
    /\ results[1].Component # results[2].Component
    /\ results[1].library.kind = "return"
    /\ results[2].library.kind = "return"
    /\ results[1].library # results[2].library

\* C8: when the library call throws, the application fails with that same
\* error and returns no component; Uncontrollable(h, m) alone never throws.
C8_ErrorsPropagate ==
    /\ last.op = "outer" => last.kind = "return"
    /\ \A i \in 1..Len(results) :
        results[i].library.kind = "throw" =>
            /\ results[i].outcome.kind = "throw"
            /\ results[i].outcome.value = results[i].library.value

\* An application has failed in the library, and Uncontrollable(h, m) has
\* been called after it.
C8_Witness ==
    /\ last.op = "outer"
    /\ \E i \in 1..Len(results) : results[i].library.kind = "throw"

\* C9: with methods left out the library's third argument is the empty
\* list, with methods given it is that list, and two applications with the
\* same arguments make the same library call.
C9_MethodsDefault ==
    /\ \A j \in 1..Len(calls) :
        LET g == results[calls[j].by].closure.given
        IN  calls[j].args[3] = IF g.methods.given THEN g.methods.list ELSE <<>>
    /\ \A i, k \in 1..Len(results) :
        (/\ results[i].closure.given = results[k].closure.given
         /\ results[i].closure.variant = results[k].closure.variant
         /\ results[i].Component = results[k].Component)
        => {calls[j].args : j \in CallsBy(i)} = {calls[j].args : j \in CallsBy(k)}

\* Two applications with the same arguments and with methods left out,
\* besides a closure made with a list of two methods.
C9_Witness ==
    /\ Len(results) = 2
    /\ results[1].closure.given = results[2].closure.given
    /\ results[1].Component = results[2].Component
    /\ ~results[1].closure.given.methods.given
    /\ \E cl \in closures : cl.given.methods.given /\ Len(cl.given.methods.list) = 2

\* ------------------------------------------------ claims about the types

\* The names of the hash H: its keys and its values.
HashNames == DOMAIN tH \cup Range(tH)

\* The statement of C6 on the instantiated first variant.
PropsAsClaimed ==
    /\ DOMAIN first = HashNames \cup DOMAIN tP \cup {"ref"}
    /\ \A n \in HashNames :
        /\ first[n].opt
        /\ n \in DOMAIN tP => first[n].ty = tP[n].ty \cup {Undefined}
    /\ \A n \in DOMAIN tP \ HashNames : first[n] = tP[n]
    /\ first["ref"].opt
    /\ "ref" \notin HashNames \cup DOMAIN tP =>
        \A a \in first["ref"].ty :
            a.tags \in {{"RefObject<ComponentType>"}, {"undefined"}}
    /\ DOMAIN CP(tH, tP) = HashNames

\* C6 as stated, for every hash H and props shape P.
C6_Original == first # NotInstantiated => PropsAsClaimed

\* C6, amended: for every hash H and every props shape P that has no prop
\* named ref, UncontrollablePropsType<H, P> has exactly the keys and values
\* of H, each optional with the type it has in P, every other prop of P
\* unchanged, and one added optional prop ref; CP<H, P> has as key set the
\* keys and values of H.
C6_PropsOfResult ==
    (first # NotInstantiated /\ "ref" \notin DOMAIN tP) => PropsAsClaimed

\* The usage example's shape: value optional, its handler and another prop
\* required, a default* prop, and the hash value -> on_change.
C6_Witness ==
    /\ first # NotInstantiated
    /\ DOMAIN tH = {"value"}
    /\ tH["value"] = "on_change"
    /\ DOMAIN tP = {"value", "on_change", "defaultValue", "other"}
    /\ tP["value"].opt
    /\ ~tP["on_change"].opt
    /\ ~tP["other"].opt

\* The case C10 is about: both variants instantiated for the same
\* component, whose props P hold every name of H and only optional
\* default* props.
SameComponent ==
    /\ first # NotInstantiated
    /\ second # NotInstantiated
    /\ HashNames \subseteq DOMAIN tP
    /\ \A n \in DefaultNames \cap DOMAIN tP : tP[n].opt

\* C10 as stated: the two variants compute the same props, with the same
\* names, types and required/optional status.
C10_Original == SameComponent => first = second

\* C10, amended: the two variants compute the same prop names with the same
\* required/optional status, and the same type for every prop but ref; the
\* two results are the same type when P has no default* prop, and differ in
\* the type of ref when it has one.
C10_SameButRef ==
    SameComponent =>
        /\ DOMAIN first = DOMAIN second
        /\ \A n \in DOMAIN first :
            /\ first[n].opt = second[n].opt
            /\ n # "ref" => first[n].ty = second[n].ty
        /\ DefaultNames \cap DOMAIN tP = {} => first = second
        /\ DefaultNames \cap DOMAIN tP # {} => first["ref"].ty # second["ref"].ty

\* Both variants instantiated for the usage example's component, whose
\* props have a default* prop.
C10_Witness ==
    /\ SameComponent
    /\ DOMAIN tH = {"value"}
    /\ tH["value"] = "on_change"
    /\ DOMAIN tP = {"value", "on_change", "defaultValue", "other"}
    /\ ~tP["on_change"].opt
    /\ ~tP["other"].opt

====
